---- MODULE Spec2Model ----
(***************************************************************************)
(* aif-core: JSON Schema inference from samples (Node::observe,            *)
(* Node::to_json_schema, infer_schema_rs) and the path diff of two schema  *)
(* documents (collect_paths, diff_schemas_rs), src/src/lib.rs.             *)
(*                                                                         *)
(* JSON text is modelled at the level of its tokens: serde_json's lexer    *)
(* (whitespace, escapes, digits) is below the model, its grammar is not.   *)
(***************************************************************************)
EXTENDS Integers, Sequences, FiniteSets, TLC

VARIABLES samples, more, pc, idx, root, res, schemaA, schemaB, out

vars == <<samples, more, pc, idx, root, res, schemaA, schemaB, out>>

(***************************************************************************)
(* serde_json::Value                                                       *)
(***************************************************************************)

\* An empty serde_json::Map / AHashMap: the function with no keys.
EmptyMap == [z \in {} |-> {}]

\* Map::insert / AHashMap insert: the key is added, or its value replaced.
MapInsert(m, key, v) ==
    [z \in DOMAIN m \cup {key} |-> IF z = key THEN v ELSE m[z]]

VNull == [k |-> "null"]

VBool(x) == [k |-> "bool", b |-> x]

\* Value::Number: lit is the literal, int says n.is_i64() || n.is_u64().
VNum(lit, isInt) == [k |-> "number", lit |-> lit, int |-> isInt]

VStr(s) == [k |-> "string", s |-> s]

VArr(els) == [k |-> "array", els |-> els]

VObj(fields) == [k |-> "object", fields |-> fields]

(***************************************************************************)
(* JSON text: a sequence of tokens                                         *)
(***************************************************************************)

P(c) == [t |-> "punct", v |-> c]

\* A string literal, a key or a value.
TStr(s) == [t |-> "string", v |-> s]

\* A number literal with no fraction or exponent that fits i64 or u64.
TInt(lit) == [t |-> "int", v |-> lit]

\* Any other number literal: serde_json keeps it as an f64.
TFloat(lit) == [t |-> "float", v |-> lit]

\* A bare word: true, false, null, or anything else (not JSON).
TWord(w) == [t |-> "word", v |-> w]

\* Some enumeration of a finite set: the iteration order of a hash set or map.
RECURSIVE SetToSeq(_)
SetToSeq(S) ==
    IF S = {} THEN <<>>
    ELSE LET x == CHOOSE y \in S : TRUE
         IN  <<x>> \o SetToSeq(S \ {x})

RECURSIVE Ser(_)
RECURSIVE SerElems(_, _)
RECURSIVE SerMembers(_, _)

\* The elements of an array from index i on, comma separated.
SerElems(els, i) ==
    IF i > Len(els) THEN <<>>
    ELSE (IF i > 1 THEN <<P(",")>> ELSE <<>>) \o Ser(els[i]) \o SerElems(els, i + 1)

\* The members of an object whose keys are still to be written, in the order keys.
SerMembers(fields, keys) ==
    IF keys = <<>> THEN <<>>
    ELSE <<TStr(Head(keys)), P(":")>> \o Ser(fields[Head(keys)])
         \o (IF Len(keys) > 1 THEN <<P(",")>> ELSE <<>>)
         \o SerMembers(fields, Tail(keys))

\* serde_json::to_string_pretty, to the token.
Ser(v) ==
    CASE v.k = "null" -> <<TWord("null")>>
      [] v.k = "bool" -> <<TWord(IF v.b THEN "true" ELSE "false")>>
      [] v.k = "number" -> <<IF v.int THEN TInt(v.lit) ELSE TFloat(v.lit)>>
      [] v.k = "string" -> <<TStr(v.s)>>
      [] v.k = "array" -> <<P("[")>> \o SerElems(v.els, 1) \o <<P("]")>>
      [] v.k = "object" ->
            <<P("{")>> \o SerMembers(v.fields, SetToSeq(DOMAIN v.fields)) \o <<P("}")>>

POk(v, next) == [ok |-> TRUE, val |-> v, next |-> next]

\* serde_json::Error: what went wrong and where.
PErr(msg, at) == [ok |-> FALSE, err |-> [msg |-> msg, at |-> at]]

IsPunct(toks, i, c) == i <= Len(toks) /\ toks[i] = P(c)

RECURSIVE ParseValue(_, _)
RECURSIVE ParseElems(_, _, _)
RECURSIVE ParseMembers(_, _, _)

\* The elements of an array after its "[", acc the ones parsed so far.
ParseElems(toks, i, acc) ==
    LET r == ParseValue(toks, i)
    IN  IF ~r.ok THEN r
        ELSE IF r.next > Len(toks) THEN PErr("EOF while parsing a list", r.next)
        ELSE IF IsPunct(toks, r.next, ",")
             THEN ParseElems(toks, r.next + 1, Append(acc, r.val))
        ELSE IF IsPunct(toks, r.next, "]")
             THEN POk(VArr(Append(acc, r.val)), r.next + 1)
        ELSE PErr("expected , or ]", r.next)

\* The members of an object after its "{", acc the ones parsed so far; a key
\* that comes twice keeps its last value (Map::insert).
ParseMembers(toks, i, acc) ==
    IF i > Len(toks) THEN PErr("EOF while parsing an object", i)
    ELSE IF toks[i].t # "string" THEN PErr("key must be a string", i)
    ELSE IF i + 1 > Len(toks) THEN PErr("EOF while parsing an object", i + 1)
    ELSE IF ~IsPunct(toks, i + 1, ":") THEN PErr("expected :", i + 1)
    ELSE LET r == ParseValue(toks, i + 2)
         IN  IF ~r.ok THEN r
             ELSE IF r.next > Len(toks)
                  THEN PErr("EOF while parsing an object", r.next)
             ELSE IF IsPunct(toks, r.next, ",")
                  THEN ParseMembers(toks, r.next + 1, MapInsert(acc, toks[i].v, r.val))
             ELSE IF IsPunct(toks, r.next, "}")
                  THEN POk(VObj(MapInsert(acc, toks[i].v, r.val)), r.next + 1)
             ELSE PErr("expected , or }", r.next)

ParseValue(toks, i) ==
    IF i > Len(toks) THEN PErr("EOF while parsing a value", i)
    ELSE LET tok == toks[i]
         IN  CASE tok.t = "word" ->
                    (CASE tok.v = "null" -> POk(VNull, i + 1)
                       [] tok.v = "true" -> POk(VBool(TRUE), i + 1)
                       [] tok.v = "false" -> POk(VBool(FALSE), i + 1)
                       [] OTHER -> PErr("expected value", i))
               [] tok.t = "int" -> POk(VNum(tok.v, TRUE), i + 1)
               [] tok.t = "float" -> POk(VNum(tok.v, FALSE), i + 1)
               [] tok.t = "string" -> POk(VStr(tok.v), i + 1)
               [] tok.t = "punct" ->
                    (CASE tok.v = "[" ->
                            IF IsPunct(toks, i + 1, "]") THEN POk(VArr(<<>>), i + 2)
                            ELSE ParseElems(toks, i + 1, <<>>)
                       [] tok.v = "{" ->
                            IF IsPunct(toks, i + 1, "}") THEN POk(VObj(EmptyMap), i + 2)
                            ELSE ParseMembers(toks, i + 1, EmptyMap)
                       [] OTHER -> PErr("expected value", i))

\* serde_json::from_str: one value, and nothing after it.
FromStr(toks) ==
    LET r == ParseValue(toks, 1)
    IN  IF ~r.ok THEN r
        ELSE IF r.next <= Len(toks) THEN PErr("trailing characters", r.next)
        ELSE r

(***************************************************************************)
(* TypeTag and Node                                                        *)
(***************************************************************************)

TypeTag == {"Null", "Boolean", "Integer", "Number", "String", "Object", "Array"}

as_str(t) ==
    CASE t = "Null" -> "null"
      [] t = "Boolean" -> "boolean"
      [] t = "Integer" -> "integer"
      [] t = "Number" -> "number"
      [] t = "String" -> "string"
      [] t = "Object" -> "object"
      [] t = "Array" -> "array"

\* Node::default(): no type, no property, no items.
EmptyNode == [types |-> {}, properties |-> EmptyMap, items |-> <<>>]

\* A type insert that forgets the tags already there.
InsertTypeOverwrite(n, t) == [n EXCEPT !.types = {t}]

\* self.types.insert(tag)
InsertType(n, t) == [n EXCEPT !.types = @ \cup {t}]

\* A property lookup that starts every key afresh.
EntryAlwaysDefault(props, key) == EmptyNode

\* self.properties.entry(k).or_default(): the child of key, created empty.
EntryOrDefault(props, key) ==
    IF key \in DOMAIN props THEN props[key] ELSE EmptyNode

\* An items child made anew at every array.
GetOrInsertItemsFresh(n) == EmptyNode

\* self.items.get_or_insert_with(|| Box::new(Node::default()))
GetOrInsertItems(n) == IF n.items = <<>> THEN EmptyNode ELSE n.items[1]

\* The tag of a value that is neither an array nor an object.
ScalarTag(v) ==
    CASE v.k = "null" -> "Null"
      [] v.k = "bool" -> "Boolean"
      [] v.k = "number" -> IF v.int THEN "Integer" ELSE "Number"
      [] v.k = "string" -> "String"

RECURSIVE observe(_, _)
RECURSIVE ObserveElems(_, _, _)

\* for el in arr { items_node.observe(el) }, from index i on.
ObserveElems(items_node, arr, i) ==
    IF i > Len(arr) THEN items_node
    ELSE ObserveElems(observe(items_node, arr[i]), arr, i + 1)

\* Node::observe: the node after it has observed v.
observe(n, v) ==
    CASE v.k = "array" ->
            LET n1 == InsertType(n, "Array")
            IN  [n1 EXCEPT !.items = <<ObserveElems(GetOrInsertItems(n1), v.els, 1)>>]
      [] v.k = "object" ->
            LET n1 == InsertType(n, "Object")
            IN  [n1 EXCEPT !.properties =
                    [key \in DOMAIN n1.properties \cup DOMAIN v.fields |->
                        IF key \in DOMAIN v.fields
                        THEN observe(EntryOrDefault(n1.properties, key), v.fields[key])
                        ELSE n1.properties[key]]]
      [] OTHER -> InsertType(n, ScalarTag(v))

(***************************************************************************)
(* Node::to_json_schema                                                    *)
(***************************************************************************)

\* The bytes of the type names, which str::cmp compares.
NameBytes(s) ==
    CASE s = "array" -> <<97, 114, 114, 97, 121>>
      [] s = "boolean" -> <<98, 111, 111, 108, 101, 97, 110>>
      [] s = "integer" -> <<105, 110, 116, 101, 103, 101, 114>>
      [] s = "null" -> <<110, 117, 108, 108>>
      [] s = "number" -> <<110, 117, 109, 98, 101, 114>>
      [] s = "object" -> <<111, 98, 106, 101, 99, 116>>
      [] s = "string" -> <<115, 116, 114, 105, 110, 103>>

RECURSIVE BytesLess(_, _)
\* Lexicographic order of two byte strings.
BytesLess(x, y) ==
    IF y = <<>> THEN FALSE
    ELSE IF x = <<>> THEN TRUE
    ELSE IF Head(x) # Head(y) THEN Head(x) < Head(y)
    ELSE BytesLess(Tail(x), Tail(y))

\* The declaration order of the TypeTag enum (its derived Ord).
TagRank(s) ==
    CASE s = "null" -> 1
      [] s = "boolean" -> 2
      [] s = "integer" -> 3
      [] s = "number" -> 4
      [] s = "string" -> 5
      [] s = "object" -> 6
      [] s = "array" -> 7

\* A comparison by the tags' declaration order instead of their names.
NameLessByTag(x, y) == TagRank(x) < TagRank(y)

\* a.cmp(b) == Ordering::Less on two type names.
NameLess(x, y) == BytesLess(NameBytes(x), NameBytes(y))

RECURSIVE SortNames(_)
\* types.sort_by(..): the names of a set in ascending order.
SortNames(S) ==
    IF S = {} THEN <<>>
    ELSE LET m == CHOOSE x \in S : \A y \in S \ {x} : NameLess(x, y)
         IN  <<m>> \o SortNames(S \ {m})

\* The "type" key of a schema: one name, or the sorted names, or no key.
InsertTypeKey(m, types) ==
    IF Len(types) = 1 THEN MapInsert(m, "type", VStr(types[1]))
    ELSE IF types # <<>>
         THEN MapInsert(m, "type", VArr([i \in 1..Len(types) |-> VStr(types[i])]))
    ELSE m

RECURSIVE to_json_schema(_)
to_json_schema(n) ==
    LET types == SortNames({as_str(t) : t \in n.types})
        m1 == InsertTypeKey(EmptyMap, types)
        m2 == IF "Object" \in n.types /\ DOMAIN n.properties # {}
              THEN MapInsert(m1, "properties",
                       VObj([key \in DOMAIN n.properties |->
                                to_json_schema(n.properties[key])]))
              ELSE m1
        m3 == IF "Array" \in n.types /\ n.items # <<>>
              THEN MapInsert(m2, "items", to_json_schema(n.items[1]))
              ELSE m2
    IN  VObj(m3)

(***************************************************************************)
(* collect_paths and diff_schemas_rs                                       *)
(***************************************************************************)

\* The path of property key under prefix.
PropPath(prefix, key) == IF prefix = "" THEN key ELSE prefix \o "." \o key

\* The path of the items under prefix.
ItemsPath(prefix) == IF prefix = "" THEN "[]" ELSE prefix \o "[]"

RECURSIVE collect_paths(_, _)
\* collect_paths: the paths it inserts into acc for schema under prefix.
collect_paths(schema, prefix) ==
    IF schema.k # "object" THEN {}
    ELSE LET obj == schema.fields
             props == obj["properties"].fields
         IN  (IF "properties" \in DOMAIN obj /\ obj["properties"].k = "object"
              THEN UNION {{PropPath(prefix, key)}
                              \cup collect_paths(props[key], PropPath(prefix, key)) :
                          key \in DOMAIN props}
              ELSE {})
             \cup
             (IF "items" \in DOMAIN obj
              THEN {ItemsPath(prefix)} \cup collect_paths(obj["items"], ItemsPath(prefix))
              ELSE {})

Ok(text) == [ok |-> TRUE, text |-> text]

\* format!("<context>{e}"): the context and the parser's diagnostic.
Err(context, e) == [ok |-> FALSE, context |-> context, e |-> e]

\* A Vec<String> collected from a set of paths, as a JSON array.
PathArray(S) ==
    LET s == SetToSeq(S) IN VArr([i \in 1..Len(s) |-> VStr(s[i])])

\* A difference taken the wrong way round.
AddedSwapped(ka, kb) == ka \ kb

\* kb.difference(&ka)
Added(ka, kb) == kb \ ka

\* ka.difference(&kb)
Removed(ka, kb) == ka \ kb

\* ka.intersection(&kb)
Common(ka, kb) == ka \cap kb

\* The result document of a diff of two parsed schemas, serialized.
DiffOut(va, vb) ==
    LET ka == collect_paths(va, "")
        kb == collect_paths(vb, "")
        o1 == MapInsert(EmptyMap, "added", PathArray(Added(ka, kb)))
        o2 == MapInsert(o1, "removed", PathArray(Removed(ka, kb)))
        o3 == MapInsert(o2, "common", PathArray(Common(ka, kb)))
    IN  Ok(Ser(VObj(o3)))

\* A diff that parses B before A.
DiffSchemasRsBFirst(ta, tb) ==
    LET va == FromStr(ta)
        vb == FromStr(tb)
    IN  IF ~vb.ok THEN Err("schema B parse error: ", vb.err)
        ELSE IF ~va.ok THEN Err("schema A parse error: ", va.err)
        ELSE DiffOut(va.val, vb.val)

diff_schemas_rs(ta, tb) ==
    LET va == FromStr(ta)
        vb == FromStr(tb)
    IN  IF ~va.ok THEN Err("schema A parse error: ", va.err)
        ELSE IF ~vb.ok THEN Err("schema B parse error: ", vb.err)
        ELSE DiffOut(va.val, vb.val)

(***************************************************************************)
(* infer_schema_rs                                                         *)
(***************************************************************************)

SchemaUri == "https://json-schema.org/draft/2020-12/schema"

\* A wrapper that passes the root's own "type" on.
InferDocRootType(schema) ==
    LET f == schema.fields
        m1 == MapInsert(EmptyMap, "$schema", VStr(SchemaUri))
        m2 == MapInsert(m1, "type", IF "type" \in DOMAIN f THEN f["type"] ELSE VStr("object"))
    IN  VObj(MapInsert(m2, "properties",
                 IF "properties" \in DOMAIN f THEN f["properties"] ELSE VObj(EmptyMap)))

\* json!({"$schema": .., "type": "object", "properties": ..}) over the root's schema.
InferDoc(schema) ==
    LET f == schema.fields
        m1 == MapInsert(EmptyMap, "$schema", VStr(SchemaUri))
        m2 == MapInsert(m1, "type", VStr("object"))
    IN  VObj(MapInsert(m2, "properties",
                 IF "properties" \in DOMAIN f THEN f["properties"] ELSE VObj(EmptyMap)))

(***************************************************************************)
(* Inputs                                                                  *)
(***************************************************************************)

RECURSIVE Join(_)
\* Token sequences, comma separated.
Join(parts) ==
    IF parts = <<>> THEN <<>>
    ELSE Head(parts) \o (IF Len(parts) > 1 THEN <<P(",")>> ELSE <<>>) \o Join(Tail(parts))

JObj(members) == <<P("{")>> \o Join(members) \o <<P("}")>>

JArr(elems) == <<P("[")>> \o Join(elems) \o <<P("]")>>

KV(key, toks) == <<TStr(key), P(":")>> \o toks

\* {"id":1,"name":"Alice"}
Alice == JObj(<<KV("id", <<TInt("1")>>), KV("name", <<TStr("Alice")>>)>>)

\* {"id":2,"name":"Bob","tags":["x"]}
Bob ==
    JObj(<<KV("id", <<TInt("2")>>), KV("name", <<TStr("Bob")>>),
           KV("tags", JArr(<< <<TStr("x")>> >>))>>)

\* {"id":1.5,"tags":[1,"x"],"a":{"x":null,"old":[]},"name":{}}
Mixed ==
    JObj(<<KV("id", <<TFloat("1.5")>>),
           KV("tags", JArr(<< <<TInt("1")>>, <<TStr("x")>> >>)),
           KV("a", JObj(<<KV("x", <<TWord("null")>>), KV("old", JArr(<<>>))>>)),
           KV("name", JObj(<<>>))>>)

\* [{"a":true},[]]
TopArray == JArr(<<JObj(<<KV("a", <<TWord("true")>>)>>), JArr(<<>>)>>)

\* not json
NotJson == <<TWord("not"), TWord("json")>>

\* {"id":
Truncated == <<P("{"), TStr("id"), P(":")>>

ValidSamples == {Alice, Bob, Mixed, TopArray}

InvalidSamples == {NotJson, Truncated}

SampleTexts == ValidSamples \cup InvalidSamples

\* {"$schema":"..","type":"object","properties":{"id":{"type":"integer"}}}
SchemaId ==
    JObj(<<KV("$schema", <<TStr(SchemaUri)>>), KV("type", <<TStr("object")>>),
           KV("properties", JObj(<<KV("id", JObj(<<KV("type", <<TStr("integer")>>)>>))>>))>>)

\* {"type":"object","properties":{"id":{"type":"integer"},"name":{"type":"string"},
\*  "tags":{"type":"array","items":{"type":"string"}}}}
SchemaIdNameTags ==
    JObj(<<KV("type", <<TStr("object")>>),
           KV("properties",
              JObj(<<KV("id", JObj(<<KV("type", <<TStr("integer")>>)>>)),
                     KV("name", JObj(<<KV("type", <<TStr("string")>>)>>)),
                     KV("tags", JObj(<<KV("type", <<TStr("array")>>),
                                       KV("items", JObj(<<KV("type", <<TStr("string")>>)>>))>>))>>))>>)

\* {"properties":{"a":{"properties":{"x":{"type":"integer"}}}}}
SchemaNested ==
    JObj(<<KV("properties",
              JObj(<<KV("a", JObj(<<KV("properties",
                        JObj(<<KV("x", JObj(<<KV("type", <<TStr("integer")>>)>>))>>))>>))>>))>>)

\* {}
SchemaEmpty == JObj(<<>>)

\* {"items":{"properties":{"x":{}}},"properties":{"tags":{"items":{"items":{}}}}}
SchemaRootItems ==
    JObj(<<KV("items", JObj(<<KV("properties", JObj(<<KV("x", JObj(<<>>))>>))>>)),
           KV("properties",
              JObj(<<KV("tags", JObj(<<KV("items", JObj(<<KV("items", JObj(<<>>))>>))>>))>>))>>)

\* {"properties":["a"],"items":1}
SchemaMalformed ==
    JObj(<<KV("properties", JArr(<< <<TStr("a")>> >>)), KV("items", <<TInt("1")>>)>>)

\* [{"properties":{"a":{}}}]
SchemaNotObject == JArr(<<JObj(<<KV("properties", JObj(<<KV("a", JObj(<<>>))>>))>>)>>)

\* {"properties":{"":{"properties":{"x":{}},"items":{}},"x":{}}}
SchemaEmptyKey ==
    JObj(<<KV("properties",
              JObj(<<KV("", JObj(<<KV("properties", JObj(<<KV("x", JObj(<<>>))>>)),
                                   KV("items", JObj(<<>>))>>)),
                     KV("x", JObj(<<>>))>>))>>)

\* {} {}
Trailing == <<P("{"), P("}"), P("{"), P("}")>>

ValidSchemas ==
    {SchemaId, SchemaIdNameTags, SchemaNested, SchemaEmpty, SchemaRootItems,
     SchemaMalformed, SchemaNotObject, SchemaEmptyKey}

InvalidSchemas == {NotJson, Truncated, Trailing}

SchemaTexts == ValidSchemas \cup InvalidSchemas

MaxSamples == 2

MaxMore == 1

\* The sequences over S of length at most n.
SeqsUpTo(S, n) == UNION {[1..m -> S] : m \in 0..n}

(***************************************************************************)
(* The caller: a = infer_schema_rs(samples), b = infer_schema_rs(samples   *)
(* followed by more), diff_schemas_rs(a, b); a failed call ends it, as     *)
(* unwrap() does in the tests. The caller picks more when it calls again.  *)
(***************************************************************************)

\* The samples of the call that is running or has returned last.
Cur == samples \o more

Init ==
    /\ samples \in SeqsUpTo(SampleTexts, MaxSamples)
    /\ more = <<>>
    /\ pc = "inferA"
    /\ idx = 0
    /\ root = EmptyNode
    /\ res = <<>>
    /\ schemaA = <<>>
    /\ schemaB = <<>>
    /\ out = <<>>

\* A loop iteration that gives up at the bad sample and goes on to the next.
ParseFailSkip ==
    /\ pc \in {"inferA", "inferB"}
    /\ idx < Len(Cur)
    /\ ~FromStr(Cur[idx + 1]).ok
    /\ idx' = idx + 1
    /\ UNCHANGED <<samples, more, pc, root, res, schemaA, schemaB, out>>

\* parse_samples, one iteration: the sample parses and the root observes it.
ObserveSample ==
    /\ pc \in {"inferA", "inferB"}
    /\ idx < Len(Cur)
    /\ LET v == FromStr(Cur[idx + 1])
       IN  /\ v.ok
           /\ root' = observe(root, v.val)
    /\ idx' = idx + 1
    /\ UNCHANGED <<samples, more, pc, res, schemaA, schemaB, out>>

\* parse_samples, one iteration: the sample does not parse, and `?` returns the
\* error through infer_schema_rs.
ParseFail ==
    /\ pc \in {"inferA", "inferB"}
    /\ idx < Len(Cur)
    /\ LET v == FromStr(Cur[idx + 1])
       IN  /\ ~v.ok
           /\ res' = <<Err("Invalid JSON: ", v.err)>>
    /\ pc' = IF pc = "inferA" THEN "failedA" ELSE "failedB"
    /\ UNCHANGED <<samples, more, idx, root, schemaA, schemaB, out>>

\* The loop is over: infer_schema_rs emits, wraps and serializes the schema.
InferReturn ==
    /\ pc \in {"inferA", "inferB"}
    /\ idx = Len(Cur)
    /\ LET text == Ser(InferDoc(to_json_schema(root)))
       IN  /\ res' = <<Ok(text)>>
           /\ IF pc = "inferA"
              THEN schemaA' = <<text>> /\ schemaB' = schemaB /\ pc' = "retA"
              ELSE schemaB' = <<text>> /\ schemaA' = schemaA /\ pc' = "retB"
    /\ UNCHANGED <<samples, more, idx, root, out>>

\* The second call of infer_schema_rs starts: a new root, the first sample next.
InferEnter ==
    /\ pc = "retA"
    /\ more' \in SeqsUpTo(SampleTexts, MaxMore)
    /\ pc' = "inferB"
    /\ idx' = 0
    /\ root' = EmptyNode
    /\ res' = <<>>
    /\ UNCHANGED <<samples, schemaA, schemaB, out>>

\* diff_schemas_rs(a, b)
Diff ==
    /\ pc = "retB"
    /\ out' = <<diff_schemas_rs(schemaA[1], schemaB[1])>>
    /\ pc' = "done"
    /\ UNCHANGED <<samples, more, idx, root, res, schemaA, schemaB>>

Next == ObserveSample \/ ParseFail \/ InferReturn \/ InferEnter \/ Diff

Spec == Init /\ [][Next]_vars

(***************************************************************************)
(* The caller of diff_schemas_rs alone, on two texts of its own.           *)
(***************************************************************************)

InitDiff ==
    /\ samples = <<>>
    /\ more = <<>>
    /\ pc = "retB"
    /\ idx = 0
    /\ root = EmptyNode
    /\ res = <<>>
    /\ schemaA \in {<<t>> : t \in SchemaTexts}
    /\ schemaB \in {<<t>> : t \in SchemaTexts}
    /\ out = <<>>

NextDiff == Diff

SpecDiff == InitDiff /\ [][NextDiff]_vars

(***************************************************************************)
(* What the claims speak of                                                *)
(***************************************************************************)

\* The values observed so far by the running (or last) call, in order.
ObservedVals == [i \in 1..idx |-> FromStr(Cur[i]).val]

\* A structural position: a sequence of steps, <<"p", key>> into a property
\* and <<"i", "">> into the elements of an array.
PStep(key) == <<"p", key>>

IStep == <<"i", "">>

RECURSIVE NodePaths(_)
\* The positions of a Node.
NodePaths(n) ==
    {<<>>}
    \cup UNION {{<<PStep(key)>> \o q : q \in NodePaths(n.properties[key])} :
                key \in DOMAIN n.properties}
    \cup (IF n.items = <<>> THEN {}
          ELSE {<<IStep>> \o q : q \in NodePaths(n.items[1])})

RECURSIVE NodeAt(_, _)
\* The Node at a position of NodePaths(n).
NodeAt(n, path) ==
    IF path = <<>> THEN n
    ELSE IF Head(path)[1] = "p" THEN NodeAt(n.properties[Head(path)[2]], Tail(path))
    ELSE NodeAt(n.items[1], Tail(path))

RECURSIVE ValuePaths(_)
\* The positions a JSON value has a value at.
ValuePaths(v) ==
    {<<>>}
    \cup (IF v.k = "object"
          THEN UNION {{<<PStep(key)>> \o q : q \in ValuePaths(v.fields[key])} :
                      key \in DOMAIN v.fields}
          ELSE {})
    \cup (IF v.k = "array"
          THEN UNION {{<<IStep>> \o q : q \in ValuePaths(v.els[i])} : i \in 1..Len(v.els)}
          ELSE {})

RECURSIVE ValuesAt(_, _)
\* The values a JSON value has at a position: all elements of an array share one.
ValuesAt(v, path) ==
    IF path = <<>> THEN {v}
    ELSE IF Head(path)[1] = "p"
         THEN IF v.k = "object" /\ Head(path)[2] \in DOMAIN v.fields
              THEN ValuesAt(v.fields[Head(path)[2]], Tail(path))
              ELSE {}
    ELSE IF v.k = "array"
         THEN UNION {ValuesAt(v.els[i], Tail(path)) : i \in 1..Len(v.els)}
    ELSE {}

\* Every value at a position, over all the samples vals.
AllValuesAt(vals, path) == UNION {ValuesAt(vals[i], path) : i \in 1..Len(vals)}

\* Every value observed so far at a position.
ObservedAt(path) == AllValuesAt(ObservedVals, path)

RECURSIVE SchemaAt(_, _)
\* The schema at a position of a schema document: <<schema>>, or <<>> if none.
SchemaAt(sch, path) ==
    IF path = <<>> THEN <<sch>>
    ELSE IF sch.k # "object" THEN <<>>
    ELSE IF Head(path)[1] = "p"
         THEN IF /\ "properties" \in DOMAIN sch.fields
                 /\ sch.fields["properties"].k = "object"
                 /\ Head(path)[2] \in DOMAIN sch.fields["properties"].fields
              THEN SchemaAt(sch.fields["properties"].fields[Head(path)[2]], Tail(path))
              ELSE <<>>
    ELSE IF "items" \in DOMAIN sch.fields
         THEN SchemaAt(sch.fields["items"], Tail(path))
    ELSE <<>>

\* The type name of a JSON value.
TagName(v) ==
    CASE v.k = "null" -> "null"
      [] v.k = "bool" -> "boolean"
      [] v.k = "number" -> IF v.int THEN "integer" ELSE "number"
      [] v.k = "string" -> "string"
      [] v.k = "array" -> "array"
      [] v.k = "object" -> "object"

\* The seven type names in lexicographic order.
LexNames == <<"array", "boolean", "integer", "null", "number", "object", "string">>

\* The "type" a set of type names must be emitted as: <<value>>, or <<>> for no key.
ExpectedType(names) ==
    LET sorted == SelectSeq(LexNames, LAMBDA x : x \in names)
    IN  IF Cardinality(names) = 0 THEN <<>>
        ELSE IF Cardinality(names) = 1 THEN <<VStr(sorted[1])>>
        ELSE <<VArr([i \in 1..Len(sorted) |-> VStr(sorted[i])])>>

\* The "type" of a schema: <<value>>, or <<>> if it has no such key.
TypeKey(sch) == IF "type" \in DOMAIN sch.fields THEN <<sch.fields["type"]>> ELSE <<>>

\* The strings of a JSON array of strings, as a set.
ArrSet(v) == {v.els[i].s : i \in 1..Len(v.els)}

\* A JSON array of strings that names no string twice.
NoDup(v) == Cardinality(ArrSet(v)) = Len(v.els)

RECURSIVE ObserveSeq(_, _, _)
\* A root that observes vals from index i on, in order.
ObserveSeq(n, vals, i) ==
    IF i > Len(vals) THEN n ELSE ObserveSeq(observe(n, vals[i]), vals, i + 1)

\* The diagnostic serde_json gives for each text that is not JSON.
ExpectedDiag(text) ==
    CASE text = NotJson -> [msg |-> "expected value", at |-> 1]
      [] text = Truncated -> [msg |-> "EOF while parsing a value", at |-> 4]
      [] text = Trailing -> [msg |-> "trailing characters", at |-> 3]

\* The fields of the diff result once it has been returned and parsed back.
DiffFields == FromStr(out[1].text).val.fields

\* collect_paths of schema A and of schema B.
PathsA == collect_paths(FromStr(schemaA[1]).val, "")

PathsB == collect_paths(FromStr(schemaB[1]).val, "")

(***************************************************************************)
(* C1                                                                      *)
(***************************************************************************)

\* C1: for every pair of valid JSON inputs, diff_schemas returns added = Pb \ Pa,
\* removed = Pa \ Pb and common = Pa \cap Pb, so that added and removed are
\* disjoint, added \cup common = Pb and removed \cup common = Pa.
C1_DiffSetAlgebra ==
    (pc = "done" /\ schemaA[1] \in ValidSchemas /\ schemaB[1] \in ValidSchemas) =>
        /\ out[1].ok
        /\ DOMAIN DiffFields = {"added", "removed", "common"}
        /\ LET added == ArrSet(DiffFields["added"])
               removed == ArrSet(DiffFields["removed"])
               common == ArrSet(DiffFields["common"])
           IN  /\ added = PathsB \ PathsA
               /\ removed = PathsA \ PathsB
               /\ common = PathsA \cap PathsB
               /\ added \cap removed = {}
               /\ added \cup common = PathsB
               /\ removed \cup common = PathsA
        /\ \A key \in {"added", "removed", "common"} : NoDup(DiffFields[key])

\* A diff whose three lists are all non-empty.
C1_Witness ==
    /\ pc = "done"
    /\ schemaA[1] \in ValidSchemas
    /\ schemaB[1] \in ValidSchemas
    /\ out[1].ok
    /\ \A key \in {"added", "removed", "common"} : DiffFields[key].els # <<>>

(***************************************************************************)
(* C2                                                                      *)
(***************************************************************************)

\* C2: when infer_schema returns, the root Node is the one that observing any
\* permutation of the same samples builds, and the returned document is the one
\* emitted from it.
C2_OrderIndependent ==
    (pc \in {"retA", "retB"}) =>
        LET vals == ObservedVals
        IN  /\ \A p \in Permutations(1..idx) :
                   ObserveSeq(EmptyNode, [i \in 1..idx |-> vals[p[i]]], 1) = root
            /\ FromStr(res[1].text).val = InferDoc(to_json_schema(root))

\* Two different samples that disagree on the type of "id" have been merged.
C2_Witness ==
    /\ pc = "retB"
    /\ idx >= 2
    /\ Cur[1] # Cur[2]
    /\ "id" \in DOMAIN root.properties
    /\ Cardinality(root.properties["id"].types) >= 2

(***************************************************************************)
(* C3                                                                      *)
(***************************************************************************)

\* C3: at a position where every array observed was empty, the Node has no items
\* child and the emitted schema has no "items" key.
C3_NoItemsForEmptyArrays ==
    LET vals == ObservedVals
        sch == to_json_schema(root)
    IN  \A path \in NodePaths(root) :
            (\A v \in AllValuesAt(vals, path) : v.k = "array" => v.els = <<>>) =>
                /\ NodeAt(root, path).items = <<>>
                /\ LET s == SchemaAt(sch, path)
                   IN  s # <<>> => "items" \notin DOMAIN s[1].fields

(***************************************************************************)
(* C4                                                                      *)
(***************************************************************************)

\* C4: after every observe of the loop, at every position, the emitted "type" is
\* the set of the type names of the values observed there: one string for one
\* name, the lexicographically sorted array of the names for more, and no key
\* where nothing was observed.
C4_TypeIsObservedTags ==
    (pc \in {"inferA", "inferB"}) =>
    LET vals == ObservedVals
        sch == to_json_schema(root)
    IN  \A path \in NodePaths(root) \cup UNION {ValuePaths(vals[i]) : i \in 1..idx} :
            LET names == {TagName(v) : v \in AllValuesAt(vals, path)}
                s == SchemaAt(sch, path)
            IN  IF names = {} THEN s = <<>> \/ TypeKey(s[1]) = <<>>
                ELSE s # <<>> /\ TypeKey(s[1]) = ExpectedType(names)

\* "name" was a string and an object, the elements of "tags" an integer and a
\* string, and an empty array left an items position nothing was observed at.
C4_Witness ==
    /\ pc = "inferB"
    /\ {"name", "tags", "a"} \subseteq DOMAIN root.properties
    /\ root.properties["name"].types = {"String", "Object"}
    /\ root.properties["tags"].items # <<>>
    /\ root.properties["tags"].items[1].types = {"Integer", "String"}
    /\ "old" \in DOMAIN root.properties["a"].properties
    /\ root.properties["a"].properties["old"].items # <<>>
    /\ ObservedAt(<<PStep("a"), PStep("old"), IStep>>) = {}

(***************************************************************************)
(* C5                                                                      *)
(***************************************************************************)

RECURSIVE ClaimedPaths(_, _, _)
\* The path set as the claim defines it: a bare key or "[]" at the root, the
\* parent path and ".key" or "[]" at a nested position.
ClaimedPaths(schema, parent, isRoot) ==
    IF schema.k # "object" THEN {}
    ELSE LET obj == schema.fields
             props == obj["properties"].fields
             propPath(key) == IF isRoot THEN key ELSE parent \o "." \o key
             itemsPath == IF isRoot THEN "[]" ELSE parent \o "[]"
         IN  (IF "properties" \in DOMAIN obj /\ obj["properties"].k = "object"
              THEN UNION {{propPath(key)} \cup ClaimedPaths(props[key], propPath(key), FALSE) :
                          key \in DOMAIN props}
              ELSE {})
             \cup
             (IF "items" \in DOMAIN obj
              THEN {itemsPath} \cup ClaimedPaths(obj["items"], itemsPath, FALSE)
              ELSE {})

\* C5: collect_paths returns exactly the path set defined by: key at the root,
\* parent.key when nested; "[]" at the root, parent[] when nested.
C5_PathsAsDefined ==
    (pc = "done" /\ schemaA[1] \in ValidSchemas) =>
        PathsA = ClaimedPaths(FromStr(schemaA[1]).val, "", TRUE)

(***************************************************************************)
(* C6                                                                      *)
(***************************************************************************)

\* C6: the document infer_schema returns has exactly the keys $schema (the
\* 2020-12 identifier), type ("object", whatever the root observed) and
\* properties (the emitted root's properties, or {} if it emitted none).
C6_DocumentShape ==
    (pc \in {"retA", "retB"}) =>
        /\ res[1].ok
        /\ LET doc == FromStr(res[1].text)
               emitted == to_json_schema(root).fields
           IN  /\ doc.ok
               /\ doc.val.k = "object"
               /\ DOMAIN doc.val.fields = {"$schema", "type", "properties"}
               /\ doc.val.fields["$schema"] =
                      VStr("https://json-schema.org/draft/2020-12/schema")
               /\ doc.val.fields["type"] = VStr("object")
               /\ doc.val.fields["properties"] =
                      (IF "properties" \in DOMAIN emitted THEN emitted["properties"]
                       ELSE VObj(EmptyMap))
               /\ (\A i \in 1..idx : ObservedVals[i].k # "object") =>
                      doc.val.fields["properties"] = VObj(EmptyMap)

\* A call returned whose samples were not all objects, one of them an array.
C6_Witness ==
    /\ pc = "retB"
    /\ res[1].ok
    /\ "Array" \in root.types
    /\ "Object" \in root.types

(***************************************************************************)
(* C7                                                                      *)
(***************************************************************************)

\* C7: infer_schema fails iff some sample is not JSON; the error is that of the
\* first such sample, the samples after it are not processed, and no schema is
\* returned.
C7_FirstInvalidSample ==
    (res # <<>>) =>
        LET bad == {i \in 1..Len(Cur) : Cur[i] \in InvalidSamples}
            first == CHOOSE i \in bad : \A j \in bad : i <= j
        IN  IF bad = {} THEN res[1].ok /\ pc \notin {"failedA", "failedB"}
            ELSE /\ res[1] = Err("Invalid JSON: ", ExpectedDiag(Cur[first]))
                 /\ idx = first - 1
                 /\ pc \in {"failedA", "failedB"}
                 /\ pc = "failedA" => schemaA = <<>>
                 /\ schemaB = <<>>
                 /\ out = <<>>

\* A call failed on its first sample, with another invalid sample after it.
C7_Witness ==
    /\ pc = "failedA"
    /\ Len(samples) = 2
    /\ samples[1] = NotJson
    /\ samples[2] = Truncated
    /\ ~res[1].ok

(***************************************************************************)
(* C8                                                                      *)
(***************************************************************************)

\* C8: diff_schemas fails iff one of its inputs is not JSON; the error names side
\* A whenever A is invalid, side B when only B is, and carries no diff.
C8_DiffParseErrors ==
    (pc = "done") =>
        LET r == out[1]
            ta == schemaA[1]
            tb == schemaB[1]
        IN  /\ r.ok <=> (ta \in ValidSchemas /\ tb \in ValidSchemas)
            /\ ta \in InvalidSchemas =>
                   r = Err("schema A parse error: ", ExpectedDiag(ta))
            /\ (ta \in ValidSchemas /\ tb \in InvalidSchemas) =>
                   r = Err("schema B parse error: ", ExpectedDiag(tb))
            /\ ~r.ok => "text" \notin DOMAIN r

\* Both sides were invalid, each in its own way, and the diff has returned.
C8_Witness ==
    /\ pc = "done"
    /\ schemaA[1] \in InvalidSchemas
    /\ schemaB[1] \in InvalidSchemas
    /\ schemaA[1] # schemaB[1]
    /\ ~out[1].ok

(***************************************************************************)
(* C9                                                                      *)
(***************************************************************************)

\* C9: in the root and every Node below it, properties is non-empty only if types
\* contains Object, and items is present only if types contains Array.
C9_ChildrenUnderTheirTag ==
    \A path \in NodePaths(root) :
        LET n == NodeAt(root, path)
        IN  /\ DOMAIN n.properties # {} => "Object" \in n.types
            /\ n.items # <<>> => "Array" \in n.types

\* A nested Node with properties and a nested Node with items, each at a position
\* that has also seen a value of another type.
C9_Witness ==
    /\ {"name", "tags", "a"} \subseteq DOMAIN root.properties
    /\ DOMAIN root.properties["a"].properties # {}
    /\ root.properties["tags"].items # <<>>
    /\ "String" \in root.properties["name"].types
    /\ "Object" \in root.properties["name"].types

(***************************************************************************)
(* C10                                                                     *)
(***************************************************************************)

RECURSIVE Grows(_, _)
\* Node m has every type tag, property key and items child that n has.
Grows(n, m) ==
    /\ n.types \subseteq m.types
    /\ DOMAIN n.properties \subseteq DOMAIN m.properties
    /\ \A key \in DOMAIN n.properties : Grows(n.properties[key], m.properties[key])
    /\ n.items # <<>> => (m.items # <<>> /\ Grows(n.items[1], m.items[1]))

\* The diff of infer_schema(S) against infer_schema(S followed by T).
DiffOfExtension ==
    (pc = "done") =>
        /\ out[1].ok
        /\ DiffFields["removed"] = VArr(<<>>)
        /\ ArrSet(DiffFields["common"]) = PathsA
        /\ ArrSet(DiffFields["added"]) = PathsB \ PathsA
        /\ (samples = <<Alice>> /\ more = <<Bob>>) =>
               /\ ArrSet(DiffFields["added"]) = {"tags", "tags[]"}
               /\ ArrSet(DiffFields["common"]) = {"id", "name"}

\* C10: an observe call never removes a type tag, a property key or an items
\* child; so the diff of infer_schema(S) against infer_schema(S followed by T) has
\* removed = [], common = the paths of infer_schema(S), added = the new paths.
C10_ObserveOnlyGrows ==
    /\ [][idx' = idx + 1 => Grows(root, root')]_vars
    /\ []DiffOfExtension

\* The example: S is Alice's sample, T is Bob's, and the diff has returned.
C10_Witness ==
    /\ pc = "done"
    /\ samples = <<Alice>>
    /\ more = <<Bob>>
    /\ out[1].ok
    /\ "tags[]" \in ArrSet(DiffFields["added"])

====
